---- MODULE Spec2Model ----
(***************************************************************************)
(* Model of monograf/views.py: the calculate-power-usage endpoint.         *)
(*                                                                         *)
(* One request is handled at a time.  A request is dispatched (permission  *)
(* check, then PowerUsageCalculatorView.post), the handler blocks in       *)
(* requests.get until the sunrise/sunset service answers, and then runs to *)
(* its response.                                                           *)
(*                                                                         *)
(* Number representation (Python floats are modelled by exact integers):   *)
(*   power               kW, integer                                       *)
(*   percentages         halves: 0, 1, 2 stand for 0.0, 0.5, 1.0           *)
(*   hours               seconds: h hours are h * 3600                     *)
(*   energy              1/57600 kWh  (kW * seconds * 16, 16 = 2^4 for the *)
(*                       up to four percentages multiplied together)       *)
(* so round(x, 2) rounds to a multiple of 576 (= 0.01 kWh).                *)
(***************************************************************************)
EXTENDS Integers, Sequences, FiniteSets, TLC

VARIABLES
    pc,            \* "idle" | "fetching" (blocked in requests.get) | "done"
    request,       \* the request being handled: header and body fields
    response,      \* the Response returned to the caller
    steps,         \* which parts of the handling have run for this request
    days,          \* get_days_in_range's list
    months,        \* calculate_energy_usage's months dict, in insertion order
    fetched,       \* what requests.get / response.json() produced
    dayLog,        \* per processed day: night_hours and the daily_usage added
    time_str,      \* parse_time's argument (time-of-day parsing runs)
    parsed         \* parse_time's result for time_str

vars == <<pc, request, response, steps, days, months, fetched, dayLog,
          time_str, parsed>>

---------------------------------------------------------------------------
(* Calendar: datetime, timedelta(days=1), strftime.                        *)

IsLeap(y) == (y % 4 = 0 /\ y % 100 # 0) \/ y % 400 = 0

DaysInMonth(y, m) ==
    IF m = 2 THEN (IF IsLeap(y) THEN 29 ELSE 28)
    ELSE IF m \in {4, 6, 9, 11} THEN 30 ELSE 31

\* Proleptic Gregorian ordinals, as datetime computes them: day 1 is 0001-01-01.
DaysBeforeYear(y) ==
    (y - 1) * 365 + (y - 1) \div 4 - (y - 1) \div 100 + (y - 1) \div 400

RECURSIVE DaysBeforeMonth(_, _)
DaysBeforeMonth(y, m) ==
    IF m = 1 THEN 0 ELSE DaysBeforeMonth(y, m - 1) + DaysInMonth(y, m - 1)

ToOrdinal(dt) == DaysBeforeYear(dt.year) + DaysBeforeMonth(dt.year, dt.month) + dt.day

\* the year, month and day of ordinal n
OrdinalYear(n) ==
    CHOOSE y \in (n \div 366)..(n \div 365 + 1) :
        DaysBeforeYear(y) < n /\ n <= DaysBeforeYear(y + 1)

OrdinalMonth(y, n) ==
    CHOOSE m \in 1..12 :
        /\ DaysBeforeYear(y) + DaysBeforeMonth(y, m) < n
        /\ n <= DaysBeforeYear(y) + DaysBeforeMonth(y, m) + DaysInMonth(y, m)

\* dt + timedelta(days=k): the date k days on, time of day and zone kept
PlusDays(dt, k) ==
    LET n == ToOrdinal(dt) + k
        y == OrdinalYear(n)
        m == OrdinalMonth(y, n)
    IN  [dt EXCEPT !.year = y, !.month = m,
                   !.day = n - DaysBeforeYear(y) - DaysBeforeMonth(y, m)]

\* datetime <= datetime (both naive, or both aware in UTC).
DateTimeLeq(a, b) ==
    \/ a.year < b.year
    \/ a.year = b.year /\ a.month < b.month
    \/ a.year = b.year /\ a.month = b.month /\ a.day < b.day
    \/ a.year = b.year /\ a.month = b.month /\ a.day = b.day /\ a.hour <= b.hour

\* strftime('%Y-%m-%d'): the calendar date, time of day and zone dropped.
DateStr(dt) == <<dt.year, dt.month, dt.day>>

\* datetime(day.year, day.month, 1)
MonthKey(dt) == <<dt.year, dt.month, 1>>

---------------------------------------------------------------------------
(* Strings are sequences of one-character strings.                         *)

Digits == <<"0", "1", "2", "3", "4", "5", "6", "7", "8", "9">>

DigitChar(d) == Digits[d + 1]

DigitVal(c) == CHOOSE d \in 0..9 : Digits[d + 1] = c

\* int(s) for a string of decimal digits
RECURSIVE IntOf(_)
IntOf(s) ==
    IF s = <<>> THEN 0
    ELSE 10 * IntOf(SubSeq(s, 1, Len(s) - 1)) + DigitVal(s[Len(s)])

\* str.split(sep) for a one-character separator
RECURSIVE SplitAcc(_, _, _)
SplitAcc(s, sep, cur) ==
    IF s = <<>> THEN <<cur>>
    ELSE IF Head(s) = sep THEN <<cur>> \o SplitAcc(Tail(s), sep, <<>>)
    ELSE SplitAcc(Tail(s), sep, Append(cur, Head(s)))

Split(s, sep) == SplitAcc(s, sep, <<>>)

\* The service's clock format "h:mm:ss AM": hour unpadded, minutes and
\* seconds two digits.
TwoDigits(n) == <<DigitChar(n \div 10), DigitChar(n % 10)>>

HourDigits(h) == IF h < 10 THEN <<DigitChar(h)>> ELSE TwoDigits(h)

FormatTime(h, m, s, period) ==
    HourDigits(h) \o <<":">> \o TwoDigits(m) \o <<":">> \o TwoDigits(s)
        \o <<" ">> \o (IF period = "AM" THEN <<"A", "M">> ELSE <<"P", "M">>)

\* parse_time with "PM and hours != 12" weakened to "PM": noon becomes 24.
parse_time_pm_always(ts) ==
    LET parts   == Split(ts, " ")
        fields  == Split(parts[1], ":")
        period  == parts[2]
        hours   == IntOf(fields[1])
        minutes == IntOf(fields[2])
        seconds == IntOf(fields[3])
        h1 == IF period = <<"P", "M">> THEN hours + 12 ELSE hours
        h2 == IF period = <<"A", "M">> /\ h1 = 12 THEN 0 ELSE h1
    IN  h2 * 3600 + minutes * 60 + seconds

\* parse_time(time_str): decimal hours, here in seconds (hours * 3600).
parse_time(ts) ==
    LET parts   == Split(ts, " ")
        fields  == Split(parts[1], ":")
        period  == parts[2]
        hours   == IntOf(fields[1])
        minutes == IntOf(fields[2])
        seconds == IntOf(fields[3])
        h1 == IF period = <<"P", "M">> /\ hours # 12 THEN hours + 12 ELSE hours
        h2 == IF period = <<"A", "M">> /\ h1 = 12 THEN 0 ELSE h1
    IN  h2 * 3600 + minutes * 60 + seconds

\* calculate_night_hours: midnight to sunrise plus sunset to midnight.
calculate_night_hours(sunrise_time, sunset_time) ==
    parse_time(sunrise_time) + (24 * 3600 - parse_time(sunset_time))

---------------------------------------------------------------------------
(* Request values.  A JSON field is absent/null, a number, or a string;    *)
(* request.data.get(...) yields None for an absent one.                    *)

Null == [t |-> "null", v |-> 0]

Num(n) == [t |-> "num", v |-> n]

\* a string that is not a number, such as "abc"
NotANumber == [t |-> "str", v |-> 0]

NoDate == [t |-> "null", iso |-> FALSE, year |-> 0, month |-> 0, day |-> 0,
           hour |-> 0, zone |-> FALSE]

\* a non-empty string that is no ISO-8601 date, such as "tomorrow"
NotADate == [NoDate EXCEPT !.t = "str"]

\* "YYYY-MM-DD" (hour 0) or "YYYY-MM-DDThh:00:00", with a trailing "Z" if zone
IsoDate(y, m, d, h, z) ==
    [t |-> "str", iso |-> TRUE, year |-> y, month |-> m, day |-> d,
     hour |-> h, zone |-> z]

NoHeader == [t |-> "null", v |-> ""]

Header(k) == [t |-> "str", v |-> k]

SettingKeys == {"percentageOfTotal", "dimmingPowerPercentage",
                "dimmingTimePercentage", "criticalInfrastructurePercentage"}

NoSettings == [t |-> "null", keys |-> {}, val |-> [k \in SettingKeys |-> 0]]

\* a JSON object holding the keys ks, each with its value in vals (halves)
Settings(ks, vals) == [t |-> "dict", keys |-> ks, val |-> vals]

\* dict.get(key, default)
Get(d, key, default) == IF key \in d.keys THEN d.val[key] ELSE default

\* settings.API_KEY
API_KEY == "secret"

---------------------------------------------------------------------------
(* HasAPIKey and the conversions at the top of post.                       *)

\* A check that only asks for the header to be present.
has_permission_any_key(req) == req.api_key.t = "str"

\* HasAPIKey.has_permission: provided_key == api_key
has_permission(req) == req.api_key.t = "str" /\ req.api_key.v = API_KEY

\* float(x): float(None) raises TypeError, float("abc") raises ValueError.
FloatExc(x) ==
    IF x.t = "null" THEN "TypeError"
    ELSE IF x.t = "str" THEN "ValueError"
    ELSE ""

\* Python truth value of a float / of a string-or-None field
Truthy(x) == x.t = "num" /\ x.v # 0

TruthyStr(x) == x.t = "str"

\* datetime.fromisoformat(s.replace('Z', '+00:00')): ValueError unless ISO;
\* the datetime is aware exactly when the string carried a zone.
FromIsoExc(s) == IF s.iso THEN "" ELSE "ValueError"

FromIso(s) == [year |-> s.year, month |-> s.month, day |-> s.day,
               hour |-> s.hour, aware |-> s.zone]

\* get_days_in_range: comparing a naive with an aware datetime raises TypeError.
DaysExc(start_date, end_date) ==
    IF start_date.aware # end_date.aware THEN "TypeError" ELSE ""

\* get_days_in_range: while current_date <= end_date: append current_date
\* and add one day.  The loop runs while start + k days <= end, so for the
\* k up to the distance of the two dates.
get_days_in_range(start_date, end_date) ==
    LET span == ToOrdinal(end_date) - ToOrdinal(start_date)
        n == Cardinality({k \in 0..span :
                            DateTimeLeq(PlusDays(start_date, k), end_date)})
    IN  [i \in 1..n |-> PlusDays(start_date, i - 1)]

\* "Group days by month" (lines 78-83): a dict keeps its keys in the order
\* of their first insertion, and each list its days in the order appended.
GroupByMonth(ds) ==
    LET first == {i \in 1..Len(ds) :
                    \A j \in 1..(i - 1) : MonthKey(ds[j]) # MonthKey(ds[i])}
        nth(k) == CHOOSE i \in first : Cardinality({j \in first : j < i}) = k - 1
    IN  [k \in 1..Cardinality(first) |->
            LET month_key == MonthKey(ds[nth(k)])
            IN  [key  |-> month_key,
                 days |-> SelectSeq(ds, LAMBDA d : MonthKey(d) = month_key)]]

---------------------------------------------------------------------------
(* calculate_energy_usage.  Energies are in 1/57600 kWh: a power in kW     *)
(* times seconds times 16.  A dict of settings holds numbers (halves).     *)

\* daily_usage with the dimmed power charged for the whole night
\* (dimming_hours taken for night_hours in the last term).
DailyUsage_dimmed_all_night(real_power, night_hours, intelligent_settings) ==
    IF intelligent_settings.t = "dict" /\ intelligent_settings.keys # {}
       /\ "percentageOfTotal" \in intelligent_settings.keys
    THEN
        LET pot  == Get(intelligent_settings, "percentageOfTotal", 0)
            dpp  == Get(intelligent_settings, "dimmingPowerPercentage", 2)
            dtp  == Get(intelligent_settings, "dimmingTimePercentage", 0)
            crit == Get(intelligent_settings, "criticalInfrastructurePercentage", 0)
            intelligent_power == real_power * pot
            standard_power    == real_power * (2 - pot)
            critical_power    == intelligent_power * crit
            dimmable_power    == intelligent_power * 2 - critical_power
            dimming_hours     == night_hours * dtp
            normal_hours      == night_hours * 2 - dimming_hours
            dimmable_power_dimmed == dimmable_power * dpp
        IN  standard_power * night_hours * 8
              + critical_power * night_hours * 4
              + dimmable_power * normal_hours * 2
              + dimmable_power_dimmed * night_hours * 2
    ELSE real_power * night_hours * 16

\* Lines 107-141: real_power * night_hours, or with intelligent settings
\* that carry percentageOfTotal the four-term sum.  Scales: powers marked
\* /2 are in half kW and so on; every term is brought to /16.
DailyUsage(real_power, night_hours, intelligent_settings) ==
    IF intelligent_settings.t = "dict" /\ intelligent_settings.keys # {}
       /\ "percentageOfTotal" \in intelligent_settings.keys
    THEN
        LET pot  == Get(intelligent_settings, "percentageOfTotal", 0)
            dpp  == Get(intelligent_settings, "dimmingPowerPercentage", 2)
            dtp  == Get(intelligent_settings, "dimmingTimePercentage", 0)
            crit == Get(intelligent_settings, "criticalInfrastructurePercentage", 0)
            intelligent_power == real_power * pot                      \* /2
            standard_power    == real_power * (2 - pot)                \* /2
            critical_power    == intelligent_power * crit              \* /4
            dimmable_power    == intelligent_power * 2 - critical_power \* /4
            dimming_hours     == night_hours * dtp                     \* /2
            normal_hours      == night_hours * 2 - dimming_hours       \* /2
            dimmable_power_dimmed == dimmable_power * dpp              \* /8
        IN  standard_power * night_hours * 8
              + critical_power * night_hours * 4
              + dimmable_power * normal_hours * 2
              + dimmable_power_dimmed * dimming_hours
    ELSE real_power * night_hours * 16

\* A day whose data is missing is charged as a full 24-hour night.
ProcessDay_missing_as_full_day(real_power, day, data, intelligent_settings) ==
    IF DateStr(day) \notin DOMAIN data
    THEN [ok |-> TRUE, date |-> DateStr(day), night_hours |-> 24 * 3600,
          daily_usage |-> DailyUsage(real_power, 24 * 3600, intelligent_settings)]
    ELSE LET night_hours == calculate_night_hours(data[DateStr(day)].sunrise,
                                                  data[DateStr(day)].sunset)
         IN  [ok |-> TRUE, date |-> DateStr(day), night_hours |-> night_hours,
              daily_usage |-> DailyUsage(real_power, night_hours, intelligent_settings)]

\* The body of "for day in month_days": the try block for one day.  ok is
\* FALSE when it raised ("No sunrise/sunset data"), and nothing is added.
ProcessDay(real_power, day, data, intelligent_settings) ==
    IF DateStr(day) \notin DOMAIN data
    THEN [ok |-> FALSE, date |-> DateStr(day), night_hours |-> 0, daily_usage |-> 0]
    ELSE LET night_hours == calculate_night_hours(data[DateStr(day)].sunrise,
                                                  data[DateStr(day)].sunset)
         IN  [ok |-> TRUE, date |-> DateStr(day), night_hours |-> night_hours,
              daily_usage |-> DailyUsage(real_power, night_hours, intelligent_settings)]

\* monthly_usage after the first n days of the loop over month_days
RECURSIVE MonthlyUsage(_, _, _, _, _)
MonthlyUsage(real_power, month_days, n, data, intelligent_settings) ==
    IF n = 0 THEN 0
    ELSE LET r == ProcessDay(real_power, month_days[n], data, intelligent_settings)
         IN  MonthlyUsage(real_power, month_days, n - 1, data, intelligent_settings)
               + (IF r.ok THEN r.daily_usage ELSE 0)

\* the days whose try block ran to "monthly_usage += daily_usage", in order
ProcessedDays(real_power, ds, data, intelligent_settings) ==
    LET all == [i \in 1..Len(ds) |->
                    ProcessDay(real_power, ds[i], data, intelligent_settings)]
    IN  SelectSeq(all, LAMBDA r : r.ok)

\* round(monthly_usage, 2): to the nearest 0.01 kWh (576 units), ties to even
Round2(x) ==
    LET q == x \div 576
        r == x % 576
    IN  IF 2 * r < 576 THEN 576 * q
        ELSE IF 2 * r > 576 THEN 576 * (q + 1)
        ELSE IF q % 2 = 0 THEN 576 * q ELSE 576 * (q + 1)

\* the running total fed the unrounded monthly value
AddToTotal_unrounded(total_usage, monthly_usage) == total_usage + monthly_usage

\* rounded_usage = round(monthly_usage, 2); total_usage += rounded_usage
AddToTotal(total_usage, monthly_usage) == total_usage + Round2(monthly_usage)

\* strftime('%Y-%m-%dT00:00:00.000Z') of the month key
MonthIso(key) == [year |-> key[1], month |-> key[2], day |-> key[3], time |-> "00:00:00.000Z"]

\* "Process each month": results and total_usage after the first n months
RECURSIVE ProcessMonths(_, _, _, _, _)
ProcessMonths(real_power, ms, n, data, intelligent_settings) ==
    IF n = 0 THEN [results |-> <<>>, total_usage |-> 0]
    ELSE LET before == ProcessMonths(real_power, ms, n - 1, data, intelligent_settings)
             monthly_usage == MonthlyUsage(real_power, ms[n].days, Len(ms[n].days), data,
                                          intelligent_settings)
         IN  [results |-> Append(before.results,
                                 [date |-> MonthIso(ms[n].key),
                                  usage |-> Round2(monthly_usage)]),
              total_usage |-> AddToTotal(before.total_usage, monthly_usage)]

---------------------------------------------------------------------------
(* Responses.                                                              *)

NoResponse == [status |-> "", error |-> "", results |-> <<>>, totalUsage |-> 0]

\* the framework's answer when a permission class refuses the request
PermissionDenied == [NoResponse EXCEPT !.status = "DENIED", !.error = "permission denied"]

\* lines 42-45
MissingParameters ==
    [NoResponse EXCEPT !.status = "BAD_REQUEST", !.error = "Missing required parameters"]

\* lines 58-68: ValueError gives 400 "Invalid input data", anything else 500
ExceptionResponse(exc) ==
    IF exc = "ValueError"
    THEN [NoResponse EXCEPT !.status = "BAD_REQUEST", !.error = "Invalid input data"]
    ELSE [NoResponse EXCEPT !.status = "INTERNAL_SERVER_ERROR", !.error = exc]

\* line 56
ResultsResponse(r) ==
    [status |-> "OK", error |-> "", results |-> r.results, totalUsage |-> r.total_usage]

\* The first exception of lines 33-37, "" if none.
ConversionExc(req) ==
    IF FloatExc(req.realPower) # "" THEN FloatExc(req.realPower)
    ELSE IF FloatExc(req.lat) # "" THEN FloatExc(req.lat)
    ELSE FloatExc(req.long)

\* line 41: all([real_power, start_date_str, end_date_str, lat, long])
AllRequired(req) ==
    /\ Truthy(req.realPower)
    /\ TruthyStr(req.startDate)
    /\ TruthyStr(req.endDate)
    /\ Truthy(req.lat)
    /\ Truthy(req.long)

\* lines 48-49
DateExc(req) ==
    IF FromIsoExc(req.startDate) # "" THEN FromIsoExc(req.startDate)
    ELSE FromIsoExc(req.endDate)

---------------------------------------------------------------------------
(* The sunrise/sunset service.  Asked for date_start..date_end, it answers *)
(* with one entry per calendar date; what it answers is not under the      *)
(* program's control.                                                      *)

\* how many of the first dates of the range an answer may leave out
OmitWindow == 2

\* the calendar dates from date_start to date_end
ServiceDays(req) ==
    get_days_in_range([FromIso(req.startDate) EXCEPT !.hour = 0, !.aware = FALSE],
                      [FromIso(req.endDate) EXCEPT !.hour = 0, !.aware = FALSE])

ServiceDates(req) ==
    LET sd == ServiceDays(req) IN {DateStr(sd[i]) : i \in 1..Len(sd)}

OmitCandidates(req) ==
    LET sd == ServiceDays(req)
    IN  {DateStr(sd[i]) : i \in 1..Len(sd) \cap 1..OmitWindow}

\* The clock times of one entry: two tables, each alternating by day.
SunTimes(variant, date) ==
    IF variant = 1
    THEN IF date[3] % 2 = 1
         THEN [date |-> date, sunrise |-> FormatTime(7, 12, 40, "AM"),
               sunset |-> FormatTime(6, 45, 0, "PM")]
         ELSE [date |-> date, sunrise |-> FormatTime(7, 13, 5, "AM"),
               sunset |-> FormatTime(6, 44, 10, "PM")]
    ELSE IF date[3] % 2 = 1
         THEN [date |-> date, sunrise |-> FormatTime(12, 10, 20, "AM"),
               sunset |-> FormatTime(11, 50, 0, "PM")]
         ELSE [date |-> date, sunrise |-> FormatTime(10, 0, 0, "AM"),
               sunset |-> FormatTime(12, 5, 0, "PM")]

\* lines 176-181: organized_data[day_data['date']] = day_data
OrganizedData(req, variant, omitted) ==
    [d \in ServiceDates(req) \ omitted |-> SunTimes(variant, d)]

NotFetched == [kind |-> "none", data |-> <<>>]

---------------------------------------------------------------------------
(* Actions.                                                                *)

KeyHeaders == {NoHeader, Header("secret"), Header("wrong")}

PowerValues == {Null, NotANumber, Num(-1), Num(0), Num(2)}

LatValues == {Null, Num(0), Num(50), Num(95)}

LongValues == {Num(0), Num(20), Num(190)}

DateValues ==
    {NoDate, NotADate,
     IsoDate(2023, 12, 31, 0, FALSE), IsoDate(2024, 1, 1, 12, FALSE),
     IsoDate(2024, 1, 30, 12, FALSE), IsoDate(2024, 3, 1, 0, FALSE),
     IsoDate(2024, 2, 28, 0, TRUE), IsoDate(2024, 3, 1, 6, TRUE)}

SettingsValues ==
    {NoSettings,
     Settings({}, [k \in SettingKeys |-> 0]),
     Settings({"dimmingPowerPercentage", "dimmingTimePercentage"},
              [k \in SettingKeys |-> 1]),
     Settings({"percentageOfTotal", "dimmingTimePercentage"},
              [k \in SettingKeys |-> IF k = "percentageOfTotal" THEN 2 ELSE 1]),
     Settings(SettingKeys, [k \in SettingKeys |-> 1])}

Requests ==
    [api_key : KeyHeaders, realPower : PowerValues, startDate : DateValues,
     endDate : DateValues, lat : LatValues, long : LongValues,
     intelligentSettings : SettingsValues]

\* no request is being handled
NoRequest ==
    [api_key |-> NoHeader, realPower |-> Null, startDate |-> NoDate,
     endDate |-> NoDate, lat |-> Null, long |-> Null,
     intelligentSettings |-> NoSettings]

Init ==
    /\ pc = "idle"
    /\ request = NoRequest
    /\ response = NoResponse
    /\ steps = {}
    /\ days = <<>>
    /\ months = <<>>
    /\ fetched = NotFetched
    /\ dayLog = <<>>
    /\ time_str = <<>>
    /\ parsed = 0

Finish(resp, st) ==
    /\ pc' = "done"
    /\ response' = resp
    /\ steps' = st

\* A request arrives and is dispatched: the permission check, then post up
\* to its response or to the call of requests.get (line 170).
Dispatch(req) ==
    /\ pc = "idle"
    /\ request' = req
    /\ UNCHANGED <<fetched, dayLog, time_str, parsed>>
    /\ IF ~has_permission(req)
       THEN Finish(PermissionDenied, {"permission"}) /\ UNCHANGED <<days, months>>
       ELSE IF ConversionExc(req) # ""
       THEN Finish(ExceptionResponse(ConversionExc(req)), {"permission", "post"})
            /\ UNCHANGED <<days, months>>
       ELSE IF ~AllRequired(req)
       THEN Finish(MissingParameters, {"permission", "post"})
            /\ UNCHANGED <<days, months>>
       ELSE IF DateExc(req) # ""
       THEN Finish(ExceptionResponse(DateExc(req)), {"permission", "post"})
            /\ UNCHANGED <<days, months>>
       ELSE IF DaysExc(FromIso(req.startDate), FromIso(req.endDate)) # ""
       THEN Finish(ExceptionResponse(DaysExc(FromIso(req.startDate), FromIso(req.endDate))),
                   {"permission", "post", "calculate"})
            /\ UNCHANGED <<days, months>>
       ELSE /\ pc' = "fetching"
            /\ days' = get_days_in_range(FromIso(req.startDate), FromIso(req.endDate))
            /\ steps' = {"permission", "post", "calculate", "fetch"}
            /\ UNCHANGED <<response, months>>

\* requests.get raises (connection refused, reset, DNS failure...).
FetchRaises ==
    /\ pc = "fetching"
    /\ fetched' = [kind |-> "raised", data |-> <<>>]
    /\ Finish(ExceptionResponse("ConnectionError"), steps)
    /\ UNCHANGED <<request, days, months, dayLog, time_str, parsed>>

\* The body is not JSON: response.json() raises JSONDecodeError, which is
\* a ValueError.
FetchNotJson ==
    /\ pc = "fetching"
    /\ fetched' = [kind |-> "not_json", data |-> <<>>]
    /\ Finish(ExceptionResponse("ValueError"), steps)
    /\ UNCHANGED <<request, days, months, dayLog, time_str, parsed>>

\* data.get('status') != 'OK': raise Exception (lines 173-174).
FetchNotOk ==
    /\ pc = "fetching"
    /\ fetched' = [kind |-> "not_ok", data |-> <<>>]
    /\ Finish(ExceptionResponse("Failed to get sunrise/sunset data"), steps)
    /\ UNCHANGED <<request, days, months, dayLog, time_str, parsed>>

\* The service answers OK; the handler runs lines 176-181 and 77-159 and
\* returns the results.
FetchOk(variant, omitted) ==
    /\ pc = "fetching"
    /\ LET data == OrganizedData(request, variant, omitted)
           ms == GroupByMonth(days)
           real_power == request.realPower.v
       IN  /\ fetched' = [kind |-> "ok", data |-> data]
           /\ months' = ms
           /\ dayLog' = ProcessedDays(real_power, days, data, request.intelligentSettings)
           /\ Finish(ResultsResponse(ProcessMonths(real_power, ms, Len(ms), data,
                                                   request.intelligentSettings)),
                     steps \cup {"compute"})
    /\ UNCHANGED <<request, days, time_str, parsed>>

\* The response is sent; the view keeps nothing from one request to the next.
Respond ==
    /\ pc = "done"
    /\ pc' = "idle"
    /\ response' = NoResponse
    /\ steps' = {}
    /\ days' = <<>>
    /\ months' = <<>>
    /\ fetched' = NotFetched
    /\ dayLog' = <<>>
    /\ request' = NoRequest
    /\ UNCHANGED <<time_str, parsed>>

\* A request with any header and body arrives.
Receive == pc = "idle" /\ \E req \in Requests : Dispatch(req)

\* The service answers OK with either table, leaving out some early dates.
ServiceAnswersOk ==
    /\ pc = "fetching"
    /\ \E variant \in {1, 2} : \E omitted \in SUBSET OmitCandidates(request) :
           FetchOk(variant, omitted)

Next ==
    \/ Receive
    \/ FetchRaises
    \/ FetchNotJson
    \/ FetchNotOk
    \/ ServiceAnswersOk
    \/ Respond

Spec == Init /\ [][Next]_vars

\* The handler's own steps are taken; the service's answer is not promised.
FairSpec == Spec /\ WF_vars(Respond)

---------------------------------------------------------------------------
(* Time-of-day parsing on its own: every 12-hour clock string over a set   *)
(* of minutes and seconds.                                                 *)

ClockMinutes == {0, 12, 45, 59}

ClockSeconds == {0, 40, 59}

InitParse ==
    /\ Init
    /\ time_str = <<>>

ParseTime(h, m, s, period) ==
    /\ time_str' = FormatTime(h, m, s, period)
    /\ parsed' = parse_time(time_str')
    /\ UNCHANGED <<pc, request, response, steps, days, months, fetched, dayLog>>

NextParse ==
    \E h \in 1..12 : \E m \in ClockMinutes : \E s \in ClockSeconds :
        \E period \in {"AM", "PM"} : ParseTime(h, m, s, period)

SpecParse == InitParse /\ [][NextParse]_vars

---------------------------------------------------------------------------
(* What the interface calls a valid request (section 6 of the design).     *)

KeyMatches == request.api_key = Header(API_KEY)

BothDatesIso ==
    /\ request.startDate.t = "str" /\ request.startDate.iso
    /\ request.endDate.t = "str" /\ request.endDate.iso

\* startDate is a later instant than endDate (both with or both without zone)
StartAfterEnd ==
    /\ BothDatesIso
    /\ request.startDate.zone = request.endDate.zone
    /\ ~DateTimeLeq(FromIso(request.startDate), FromIso(request.endDate))

\* a required field absent, not a number, out of range, or a bad date range
InvalidInput ==
    \/ \E f \in {request.realPower, request.lat, request.long} : f.t # "num"
    \/ request.realPower.v <= 0
    \/ request.lat.v < -90 \/ request.lat.v > 90
    \/ request.long.v < -180 \/ request.long.v > 180
    \/ ~BothDatesIso
    \/ StartAfterEnd

\* every required field present and in range, startDate not after endDate
ValidInput ==
    /\ ~InvalidInput
    /\ request.startDate.zone = request.endDate.zone

FetchFailed == fetched.kind \in {"raised", "not_json", "not_ok"}

\* C1: for an authenticated, valid request whose day-length fetch failed
\* (raised, not JSON, status not OK), the response is still the normal
\* results response and not an error.
C1_FetchFailureNotSurfaced ==
    (pc = "done" /\ KeyMatches /\ ValidInput /\ FetchFailed)
        => response.status = "OK"

\* C2: a request waiting for the day-length service always gets to its
\* response, whether or not the service ever answers.
C2_FetchAlwaysCompletes == (pc = "fetching") ~> (pc = "done")

\* C3: an authenticated request with a missing, malformed or out-of-range
\* field gets a client error, and for it no fetch is issued and no results
\* are returned.
C3_InvalidInputRejected ==
    (pc # "idle" /\ KeyMatches /\ InvalidInput)
        => /\ pc = "done"
           /\ response.status = "BAD_REQUEST"
           /\ "fetch" \notin steps
           /\ response.results = <<>>

\* C4: a request whose key header is absent or differs from the configured
\* key is refused with nothing but the permission check run: no parsing,
\* no days, no fetch, no usage computation, no results.
C4_BadKeyRejectedBeforeCalculation ==
    (pc # "idle" /\ ~KeyMatches)
        => /\ pc = "done"
           /\ steps = {"permission"}
           /\ response = PermissionDenied
           /\ days = <<>> /\ months = <<>> /\ dayLog = <<>>
           /\ fetched = NotFetched

C4_Witness ==
    /\ pc = "done"
    /\ request.api_key = Header("wrong")
    /\ ValidInput
    /\ response.status = "DENIED"

---------------------------------------------------------------------------
(* Sums used to state the claims.                                          *)

RECURSIVE SumSeq(_, _)
SumSeq(q, n) == IF n = 0 THEN 0 ELSE SumSeq(q, n - 1) + q[n]

\* the energy of a day that has an entry in the fetched data
EntryEnergy(day) ==
    DailyUsage(request.realPower.v,
               calculate_night_hours(fetched.data[DateStr(day)].sunrise,
                                     fetched.data[DateStr(day)].sunset),
               request.intelligentSettings)

\* the days of the range in the month of key that have an entry
DaysWithEntry(key) ==
    SelectSeq(days, LAMBDA d : MonthKey(d) = key /\ DateStr(d) \in DOMAIN fetched.data)

ResultFor(key) ==
    {k \in 1..Len(response.results) : response.results[k].date = MonthIso(key)}

\* C5: when the service answered OK, days without an entry are left out
\* and nothing fails: the response is the results response, every month of
\* a day of the range appears once, and its usage is the rounded sum of the
\* energies of exactly its days that have an entry.
C5_MissingDayExcluded ==
    (pc = "done" /\ fetched.kind = "ok")
        => /\ response.status = "OK"
           /\ \A key \in {MonthKey(days[i]) : i \in 1..Len(days)} :
                LET with == DaysWithEntry(key)
                    energies == [j \in 1..Len(with) |-> EntryEnergy(with[j])]
                IN  /\ Cardinality(ResultFor(key)) = 1
                    /\ \A k \in ResultFor(key) :
                         response.results[k].usage = Round2(SumSeq(energies, Len(energies)))

\* a day of the range without an entry, in a month that has other days with
\* entries and a usage that is not zero
C5_Witness ==
    /\ pc = "done" /\ fetched.kind = "ok" /\ response.status = "OK"
    /\ \E i \in 1..Len(days) :
         /\ DateStr(days[i]) \notin DOMAIN fetched.data
         /\ Len(DaysWithEntry(MonthKey(days[i]))) >= 2
         /\ \A k \in ResultFor(MonthKey(days[i])) : response.results[k].usage # 0

---------------------------------------------------------------------------

\* the calendar dates from startDate's day through endDate's day
CalendarDates ==
    LET first == [FromIso(request.startDate) EXCEPT !.hour = 0]
        last  == [FromIso(request.endDate) EXCEPT !.hour = 0]
    IN  [i \in 1..(ToOrdinal(last) - ToOrdinal(first) + 1) |->
            DateStr(PlusDays(first, i - 1))]

\* the buckets' day lists one after the other, as calendar dates
RECURSIVE BucketDates(_)
BucketDates(n) ==
    IF n = 0 THEN <<>>
    ELSE BucketDates(n - 1)
           \o [i \in 1..Len(months[n].days) |-> DateStr(months[n].days[i])]

\* C6: the month buckets, one after the other, are exactly the calendar
\* days from startDate's day through endDate's day, each once and in order,
\* and every day is in the bucket of its own month, whatever the time of
\* day of the two dates.
C6_BucketsPartitionRange ==
    (pc = "done" /\ fetched.kind = "ok" /\ ValidInput)
        => /\ BucketDates(Len(months)) = CalendarDates
           /\ \A k \in 1..Len(months) : \A i \in 1..Len(months[k].days) :
                MonthKey(months[k].days[i]) = months[k].key

\* The allocator's tiers of realPower charged as the claim says: standard
\* and critical for on_hours, the dimmable tier for the night hours n, part
\* of them dimmed.  Settings are read as the code reads them: without
\* settings or percentageOfTotal all power is standard; an absent
\* dimmingPowerPercentage is 1, the other two are 0.  In 1/57600 kWh.
TierEnergy(n, on_hours) ==
    LET st   == request.intelligentSettings
        P    == request.realPower.v
        pot  == Get(st, "percentageOfTotal", 0)
        dpp  == Get(st, "dimmingPowerPercentage", 2)
        dtp  == Get(st, "dimmingTimePercentage", 0)
        crit == Get(st, "criticalInfrastructurePercentage", 0)
        standardKw == 2 * P - P * pot                  \* half kW
        criticalKw == P * pot * crit                   \* quarter kW
        dimmableKw == 2 * P * pot - criticalKw         \* quarter kW
    IN  8 * standardKw * on_hours + 4 * criticalKw * on_hours
          + 2 * dimmableKw * n * (2 - dtp) + dimmableKw * dpp * n * dtp

C8_TotalIsSumOfRounded ==
    (pc = "done" /\ response.status = "OK")
        => response.totalUsage =
             SumSeq([k \in 1..Len(response.results) |-> response.results[k].usage],
                    Len(response.results))

\* several months listed, a day skipped, a total that is not zero
C8_Witness ==
    /\ pc = "done" /\ response.status = "OK"
    /\ Len(response.results) >= 3
    /\ Len(dayLog) < Len(days)
    /\ response.totalUsage # 0

\* the 24-hour hour of a 12-hour clock hour, as the claim gives it
Hour24(h, period) ==
    IF period = "AM" THEN (IF h = 12 THEN 0 ELSE h)
    ELSE (IF h = 12 THEN 12 ELSE h + 12)

\* C9: parse_time turns "h:mm:ss AM|PM" into hour + minutes/60 +
\* seconds/3600 (here in seconds) with 12 AM as hour 0, 12 PM as 12, 1-11
\* PM plus 12 and 1-11 AM unchanged; the four examples give 7.2111
\* (25960 s), 18.75 (67500 s), 0.0 and 12.0 (43200 s).
C9_ParseTime ==
    /\ \A h \in 1..12 : \A m \in ClockMinutes : \A s \in ClockSeconds :
         \A period \in {"AM", "PM"} :
            time_str = FormatTime(h, m, s, period)
                => parsed = Hour24(h, period) * 3600 + m * 60 + s
    /\ time_str = <<"7", ":", "1", "2", ":", "4", "0", " ", "A", "M">> => parsed = 25960
    /\ time_str = <<"6", ":", "4", "5", ":", "0", "0", " ", "P", "M">> => parsed = 67500
    /\ time_str = <<"1", "2", ":", "0", "0", ":", "0", "0", " ", "A", "M">> => parsed = 0
    /\ time_str = <<"1", "2", ":", "0", "0", ":", "0", "0", " ", "P", "M">> => parsed = 43200

\* noon has been parsed
C9_Witness ==
    /\ time_str = <<"1", "2", ":", "0", "0", ":", "0", "0", " ", "P", "M">>
    /\ parsed = 12 * 3600

\* C10: an authenticated request with every required field present and in
\* range is never answered "Missing required parameters".
C10_ValidNeverMissing ==
    (pc = "done" /\ KeyMatches /\ ValidInput)
        => response.error # "Missing required parameters"

====
